---- MODULE Spec2Model ----
(***************************************************************************)
(* Flocking simulation (src/main.cpp): the per-frame loop of main and the  *)
(* methods of struct Boid.                                                 *)
(*                                                                         *)
(* Numbers.  A C++ float is modelled as a fixed-point integer counting     *)
(* 1/Scale units, so that 1.0f is Scale, MAX_SPEED (2.5f) is 250 and       *)
(* MAX_FORCE (0.1f) is 10.  Every product and quotient is truncated toward *)
(* zero to a whole number of units.  A Vector2 is a record [x, y].         *)
(***************************************************************************)
EXTENDS Integers, Sequences, FiniteSets

\* ------------------------------------------------------------------------
\* Number representation
\* ------------------------------------------------------------------------

\* units per 1.0f
Scale == 100

\* largest component whose square sum still fits a 32-bit integer
MantissaMax == 32767

Abs(a) == IF a < 0 THEN -a ELSE a

Sgn(a) == IF a < 0 THEN -1 ELSE IF a > 0 THEN 1 ELSE 0

Max(a, b) == IF a >= b THEN a ELSE b

Min(a, b) == IF a <= b THEN a ELSE b

\* (float)n for an int n
ToFloat(n) == n * Scale

\* a * b on floats
MulFix(a, b) == Sgn(a) * Sgn(b) * ((Abs(a) * Abs(b)) \div Scale)

\* a * (1.0f / d) on floats, d > 0
DivFix(a, d) == Sgn(a) * ((Abs(a) * Scale) \div d)

RECURSIVE IsqrtIter(_, _, _)
IsqrtIter(n, lo, hi) ==
    IF lo >= hi THEN lo
    ELSE LET mid == (lo + hi + 1) \div 2
         IN  IF mid * mid <= n THEN IsqrtIter(n, mid, hi)
                               ELSE IsqrtIter(n, lo, mid - 1)

\* sqrtf on a sum of squares counted in units squared: the result is in units
Isqrt(n) == IsqrtIter(n, 0, 46340)

\* ------------------------------------------------------------------------
\* raymath.h (src/main.cpp:2), as called by Boid
\* ------------------------------------------------------------------------

Zero == [x |-> 0, y |-> 0]

Vec(px, py) == [x |-> px, y |-> py]

Vector2Add(a, b) == [x |-> a.x + b.x, y |-> a.y + b.y]

Vector2Subtract(a, b) == [x |-> a.x - b.x, y |-> a.y - b.y]

Vector2Scale(v, s) == [x |-> MulFix(v.x, s), y |-> MulFix(v.y, s)]

\* Vector2Scale(v, 1.0f / d)
Vector2ScaleInv(v, d) == [x |-> DivFix(v.x, d), y |-> DivFix(v.y, d)]

\* sqrtf(x*x + y*y).  Components up to MantissaMax are squared as they are;
\* larger ones (differences of far-apart positions) are first divided down,
\* which keeps the leading digits as a float does.
Vector2Length(v) ==
    LET m == Max(Abs(v.x), Abs(v.y))
    IN  IF m <= MantissaMax
        THEN Isqrt(v.x * v.x + v.y * v.y)
        ELSE LET D == (m \div (MantissaMax + 1)) + 1
                 X == Abs(v.x) \div D
                 Y == Abs(v.y) \div D
             IN  D * Isqrt(X * X + Y * Y)

Vector2Distance(a, b) == Vector2Length(Vector2Subtract(a, b))

\* length = sqrtf(x*x + y*y); if (length > 0) result = v * (1.0f/length);
\* otherwise the result stays { 0 }.  The components are brought to full
\* precision before the division, as a float mantissa is.
Vector2Normalize(v) ==
    LET m == Max(Abs(v.x), Abs(v.y))
    IN  IF m = 0 THEN Zero
        ELSE LET K == IF m <= MantissaMax THEN MantissaMax \div m ELSE 1
                 D == IF m <= MantissaMax THEN 1 ELSE (m \div (MantissaMax + 1)) + 1
                 X == (Abs(v.x) * K) \div D
                 Y == (Abs(v.y) * K) \div D
                 L == Isqrt(X * X + Y * Y)
             IN  [x |-> Sgn(v.x) * ((X * Scale) \div L),
                  y |-> Sgn(v.y) * ((Y * Scale) \div L)]

\* atan2(y, x), in whole degrees in -180..180 (the source holds radians).
\* On the first octant atan(t) is 45 t + 15.64 t (1 - t) degrees to within
\* a quarter of a degree.
Atan2(y, x) ==
    LET ax == Abs(x)
        ay == Abs(y)
        mx == Max(ax, ay)
        mn == Min(ax, ay)
    IN  IF mx = 0 THEN 0
        ELSE LET t  == (mn * 1000) \div mx
                 a0 == 45 * t + ((((t * (1000 - t)) \div 1000) * 1564) \div 100)
                 a1 == IF ay > ax THEN 90000 - a0 ELSE a0
                 a2 == IF x < 0 THEN 180000 - a1 ELSE a1
             IN  (IF y < 0 THEN -1 ELSE 1) * (a2 \div 1000)

\* ------------------------------------------------------------------------
\* Program constants (src/main.cpp:7-18)
\* ------------------------------------------------------------------------

screenWidth == ToFloat(1200)

screenHeight == ToFloat(800)

MAX_SPEED == (25 * Scale) \div 10

MAX_FORCE == Scale \div 10

NEIGHBOR_RADIUS == ToFloat(100)

SEPARATION_RADIUS == ToFloat(20)

COHESION_WEIGHT == (5 * Scale) \div 10

ALIGNMENT_WEIGHT == Scale \div 10

SEPARATION_WEIGHT == (2 * Scale) \div 10

\* ------------------------------------------------------------------------
\* Bounds of the model
\* ------------------------------------------------------------------------

\* boids in the flock (the program runs 1000)
NUM_BOIDS == 3

\* frames simulated before the window must close
MaxTick == 2

\* rounding allowance on a renormalised speed, in units
SpeedTol == 4

\* ------------------------------------------------------------------------
\* struct Boid
\* ------------------------------------------------------------------------

\* Boid::Boid(position), with the two GetRandomValue(-2, 2) draws vx, vy
Boid(position, vx, vy) ==
    [position     |-> position,
     velocity     |-> Vec(ToFloat(vx), ToFloat(vy)),
     acceleration |-> Zero,
     rotation     |-> Atan2(ToFloat(vy), ToFloat(vx))]

\* update without the rescaling of the velocity to MAX_SPEED
update_NoRescale(b) ==
    LET v1 == Vector2Add(b.velocity, b.acceleration)
    IN  [position     |-> Vector2Add(b.position, v1),
         velocity     |-> v1,
         acceleration |-> Zero,
         rotation     |-> Atan2(v1.y, v1.x)]

\* Boid::update
update(b) ==
    LET v1 == Vector2Add(b.velocity, b.acceleration)
        v2 == Vector2Scale(Vector2Normalize(v1), MAX_SPEED)
    IN  [position     |-> Vector2Add(b.position, v2),
         velocity     |-> v2,
         acceleration |-> Zero,
         rotation     |-> Atan2(v2.y, v2.x)]

\* Boid::applyForce
applyForce(b, force) ==
    [b EXCEPT !.acceleration = Vector2Add(b.acceleration, force)]

\* borders without the lower test
BorderAxis_NoLower(c, bound) == IF c > bound THEN 0 ELSE c

\* borders wrapping by the overshoot
BorderAxis_Modulo(c, bound) ==
    IF c < 0 THEN c + bound ELSE IF c > bound THEN c - bound ELSE c

\* one axis of Boid::borders: the two ifs in the order the code runs them
BorderAxis(c, bound) ==
    LET c1 == IF c < 0 THEN bound ELSE c
    IN  IF c1 > bound THEN 0 ELSE c1

\* Boid::borders
borders(b) ==
    [b EXCEPT !.position = Vec(BorderAxis(b.position.x, screenWidth),
                               BorderAxis(b.position.y, screenHeight))]

\* the radius test of align with <= for <
AlignNeighbor_Inclusive(d) == d > 0 /\ d <= NEIGHBOR_RADIUS

\* the neighbour test of cohesion with d >= 0 for d > 0
CohesionNeighbor_Self(d) == d >= 0 /\ d < NEIGHBOR_RADIUS

\* the neighbour tests of the three scans
SeparationNeighbor(d) == d > 0 /\ d < SEPARATION_RADIUS

AlignNeighbor(d) == d > 0 /\ d < NEIGHBOR_RADIUS

CohesionNeighbor(d) == d > 0 /\ d < NEIGHBOR_RADIUS

\* Vector2Length(v) > c, decided on the squares, where sqrtf decides it (the
\* whole-unit Vector2Length would drop the fraction the test turns on)
LengthAbove(v, c) == v.x * v.x + v.y * v.y > c * c

\* no limit on the force
Limit_Off(steer) == steer

\* if (Vector2Length(steer) > MAX_FORCE) steer = Normalize(steer) * MAX_FORCE
Limit(steer) ==
    IF LengthAbove(steer, MAX_FORCE)
    THEN Vector2Scale(Vector2Normalize(steer), MAX_FORCE)
    ELSE steer

\* the for loop of Boid::separate over boids[1..k]
RECURSIVE SeparateScan(_, _, _)
SeparateScan(b, bs, k) ==
    IF k = 0 THEN [sum |-> Zero, count |-> 0]
    ELSE LET acc   == SeparateScan(b, bs, k - 1)
             other == bs[k]
             d     == Vector2Distance(b.position, other.position)
             diff  == Vector2ScaleInv(
                        Vector2Normalize(Vector2Subtract(b.position, other.position)), d)
         IN  IF SeparationNeighbor(d)
             THEN [sum |-> Vector2Add(acc.sum, diff), count |-> acc.count + 1]
             ELSE acc

\* separate without the test for a zero-length average
separate_NoZeroTest(b, bs) ==
    LET scan   == SeparateScan(b, bs, Len(bs))
        steer0 == IF scan.count > 0
                  THEN Vector2ScaleInv(scan.sum, ToFloat(scan.count))
                  ELSE scan.sum
    IN  Limit(Vector2Subtract(
                Vector2Scale(Vector2Normalize(steer0), MAX_SPEED), b.velocity))

\* Boid::separate
separate(b, bs) ==
    LET scan   == SeparateScan(b, bs, Len(bs))
        steer0 == IF scan.count > 0
                  THEN Vector2ScaleInv(scan.sum, ToFloat(scan.count))
                  ELSE scan.sum
    IN  IF LengthAbove(steer0, 0)
        THEN Limit(Vector2Subtract(
                     Vector2Scale(Vector2Normalize(steer0), MAX_SPEED), b.velocity))
        ELSE steer0

\* the for loop of Boid::align over boids[1..k]
RECURSIVE AlignScan(_, _, _)
AlignScan(b, bs, k) ==
    IF k = 0 THEN [sum |-> Zero, count |-> 0]
    ELSE LET acc   == AlignScan(b, bs, k - 1)
             other == bs[k]
             d     == Vector2Distance(b.position, other.position)
         IN  IF AlignNeighbor(d)
             THEN [sum |-> Vector2Add(acc.sum, other.velocity), count |-> acc.count + 1]
             ELSE acc

\* align steering to the average velocity itself, not rescaled to MAX_SPEED
align_NoRescale(b, bs) ==
    LET scan == AlignScan(b, bs, Len(bs))
    IN  IF scan.count > 0
        THEN LET avg == Vector2ScaleInv(scan.sum, ToFloat(scan.count))
             IN  Limit(Vector2Subtract(avg, b.velocity))
        ELSE Zero

\* Boid::align
align(b, bs) ==
    LET scan == AlignScan(b, bs, Len(bs))
    IN  IF scan.count > 0
        THEN LET avg == Vector2ScaleInv(scan.sum, ToFloat(scan.count))
                 des == Vector2Scale(Vector2Normalize(avg), MAX_SPEED)
             IN  Limit(Vector2Subtract(des, b.velocity))
        ELSE Zero

\* the for loop of Boid::cohesion over boids[1..k]
RECURSIVE CohesionScan(_, _, _)
CohesionScan(b, bs, k) ==
    IF k = 0 THEN [sum |-> Zero, count |-> 0]
    ELSE LET acc   == CohesionScan(b, bs, k - 1)
             other == bs[k]
             d     == Vector2Distance(b.position, other.position)
         IN  IF CohesionNeighbor(d)
             THEN [sum |-> Vector2Add(acc.sum, other.position), count |-> acc.count + 1]
             ELSE acc

\* Boid::cohesion
cohesion(b, bs) ==
    LET scan == CohesionScan(b, bs, Len(bs))
    IN  IF scan.count > 0
        THEN LET avg   == Vector2ScaleInv(scan.sum, ToFloat(scan.count))
                 steer == Vector2Subtract(avg, b.position)
                 des   == Vector2Scale(Vector2Normalize(steer), MAX_SPEED)
             IN  Limit(Vector2Subtract(des, b.velocity))
        ELSE Zero

\* ------------------------------------------------------------------------
\* main
\* ------------------------------------------------------------------------

VARIABLES
    boids,      \* std::vector<Boid> boids
    pc,         \* where main stands
    cur,        \* index of the boid the range-for is at
    tick,       \* frames completed
    sep,        \* the locals sep, ali, coh of the loop body
    ali,
    coh,
    snapshot,   \* boids as the frame began
    old         \* boids before the statement just executed

vars == <<boids, pc, cur, tick, sep, ali, coh, snapshot, old>>

Index == 1..NUM_BOIDS

\* values of GetRandomValue(0, screenWidth), GetRandomValue(0, screenHeight)
\* the model draws the initial positions from
Points ==
    <<Vec(ToFloat(1130), ToFloat(720)), Vec(ToFloat(1140), ToFloat(720)),
      Vec(ToFloat(1150), ToFloat(720)), Vec(ToFloat(1200), ToFloat(800)),
      Vec(ToFloat(0), ToFloat(0))>>

\* the first boid takes any point; the boids after it take one point at the
\* even indices and one, not earlier in the list, at the odd indices
Layouts ==
    {f \in [Index -> 1..Len(Points)] :
        /\ \A i \in Index : i >= 4 => f[i] = f[i - 2]
        /\ (NUM_BOIDS >= 3 => f[2] <= f[3])}

\* values of the GetRandomValue(-2, 2) pairs the model draws the initial
\* velocities from: one velocity for all, or the first boid moving among
\* boids at rest, or among boids flying in opposite directions
Velocities ==
    {[i \in Index |-> <<vx, vy>>] : vx \in -2..2, vy \in -2..2}
    \cup {[i \in Index |-> IF i = 1 THEN <<2, 1>> ELSE <<0, 0>>]}
    \cup {[i \in Index |-> IF i = 1 THEN <<1, -2>>
                           ELSE IF i % 2 = 0 THEN <<1, 0>> ELSE <<-1, 0>>]}

\* the constructor loop of main
Init ==
    /\ \E f \in Layouts, v \in Velocities :
          boids = [i \in Index |-> Boid(Points[f[i]], v[i][1], v[i][2])]
    /\ pc = "loop"
    /\ cur = 1
    /\ tick = 0
    /\ sep = Zero
    /\ ali = Zero
    /\ coh = Zero
    /\ snapshot = boids
    /\ old = boids

\* while (!WindowShouldClose()): the window stays open, the for loop starts
BeginFrame ==
    /\ pc = "loop"
    /\ tick < MaxTick
    /\ pc' = "steer"
    /\ cur' = 1
    /\ snapshot' = boids
    /\ old' = boids
    /\ UNCHANGED <<boids, tick, sep, ali, coh>>

\* WindowShouldClose() returns true
Close ==
    /\ pc = "loop"
    /\ pc' = "done"
    /\ old' = boids
    /\ UNCHANGED <<boids, cur, tick, sep, ali, coh, snapshot>>

\* the three queries on the boid the loop is at
SteerOf(bs, i) ==
    [sep |-> separate(bs[i], bs), ali |-> align(bs[i], bs), coh |-> cohesion(bs[i], bs)]

Steer ==
    /\ pc = "steer"
    /\ LET r == SteerOf(boids, cur)
       IN  /\ sep' = r.sep
           /\ ali' = r.ali
           /\ coh' = r.coh
    /\ pc' = "apply"
    /\ old' = boids
    /\ UNCHANGED <<boids, cur, tick, snapshot>>

\* the weights and the three applyForce calls
ApplyAt(bs, i, fs, fa, fc) ==
    [bs EXCEPT ![i] =
        applyForce(applyForce(applyForce(@,
            Vector2Scale(fs, SEPARATION_WEIGHT)),
            Vector2Scale(fa, ALIGNMENT_WEIGHT)),
            Vector2Scale(fc, COHESION_WEIGHT))]

ApplyForces ==
    /\ pc = "apply"
    /\ boids' = ApplyAt(boids, cur, sep, ali, coh)
    /\ pc' = "update"
    /\ old' = boids
    /\ UNCHANGED <<cur, tick, sep, ali, coh, snapshot>>

\* update run on every boid of the flock
UpdateAt_All(bs, i) == [j \in DOMAIN bs |-> update(bs[j])]

\* boid.update() on the element the loop refers to
UpdateAt(bs, i) == [bs EXCEPT ![i] = update(@)]

Update ==
    /\ pc = "update"
    /\ boids' = UpdateAt(boids, cur)
    /\ pc' = "borders"
    /\ old' = boids
    /\ UNCHANGED <<cur, tick, sep, ali, coh, snapshot>>

\* boid.borders()
BordersAt(bs, i) == [bs EXCEPT ![i] = borders(@)]

Borders ==
    /\ pc = "borders"
    /\ boids' = BordersAt(boids, cur)
    /\ pc' = "next"
    /\ old' = boids
    /\ UNCHANGED <<cur, tick, sep, ali, coh, snapshot>>

\* the range-for moves to the next boid, or ends
NextBoid ==
    /\ pc = "next"
    /\ IF cur < Len(boids)
       THEN cur' = cur + 1 /\ pc' = "steer"
       ELSE cur' = cur /\ pc' = "draw"
    /\ old' = boids
    /\ UNCHANGED <<boids, tick, sep, ali, coh, snapshot>>

\* BeginDrawing .. EndDrawing: reads the flock, changes nothing of it
Draw ==
    /\ pc = "draw"
    /\ pc' = "loop"
    /\ tick' = tick + 1
    /\ old' = boids
    /\ UNCHANGED <<boids, cur, sep, ali, coh, snapshot>>

Next ==
    \/ BeginFrame
    \/ Close
    \/ Steer
    \/ ApplyForces
    \/ Update
    \/ Borders
    \/ NextBoid
    \/ Draw

Spec == Init /\ [][Next]_vars

TypeOK ==
    /\ pc \in {"loop", "steer", "apply", "update", "borders", "next", "draw", "done"}
    /\ cur \in Index
    /\ tick \in 0..MaxTick
    /\ Len(boids) = NUM_BOIDS

\* ------------------------------------------------------------------------
\* Properties
\* ------------------------------------------------------------------------

\* the boid the loop is at
Me == boids[cur]

SqLen(v) == v.x * v.x + v.y * v.y

Neg(v) == Vector2Subtract(Zero, v)

\* some boid lies at a distance d, 0 < d < radius, from boid i
HasNeighbor(i, radius) ==
    \E j \in 1..Len(boids) :
        LET d == Vector2Distance(boids[i].position, boids[j].position)
        IN  d > 0 /\ d < radius

\* some other boid lies at exactly the distance radius from boid i
HasBoidAt(i, radius) ==
    \E j \in 1..Len(boids) :
        Vector2Distance(boids[i].position, boids[j].position) = radius

\* C1 as stated: right after borders has run on a boid, its position is in
\* the half-open box, 0 <= x < screenWidth and 0 <= y < screenHeight.
C1_HalfOpenBox ==
    pc = "next" =>
        /\ 0 <= Me.position.x /\ Me.position.x < screenWidth
        /\ 0 <= Me.position.y /\ Me.position.y < screenHeight

\* C1 amended: right after borders has run on a boid, its position is in the
\* closed box, 0 <= x <= screenWidth and 0 <= y <= screenHeight; a coordinate
\* that was exactly at the upper bound, or below 0, is at the upper bound.
C1_ClosedBox ==
    pc = "next" =>
        LET o == old[cur].position
            p == Me.position
        IN  /\ 0 <= p.x /\ p.x <= screenWidth
            /\ 0 <= p.y /\ p.y <= screenHeight
            /\ (o.x = screenWidth \/ o.x < 0) => p.x = screenWidth
            /\ (o.y = screenHeight \/ o.y < 0) => p.y = screenHeight

\* borders has just left a boid that stood at x = screenWidth at screenWidth
C1_Witness ==
    /\ pc = "next"
    /\ old[cur].position.x = screenWidth
    /\ Me.position.x = screenWidth

\* C2: right after update, the speed of the boid is MAX_SPEED (to within the
\* rounding of the renormalisation) unless velocity + acceleration was the
\* zero vector.
C2_SpeedAfterUpdate ==
    pc = "borders" =>
        LET o == old[cur]
            l == Vector2Length(Me.velocity)
        IN  Vector2Add(o.velocity, o.acceleration) # Zero =>
                /\ MAX_SPEED - SpeedTol <= l
                /\ SqLen(Me.velocity) <= MAX_SPEED * MAX_SPEED

\* update has brought a slow boid under a non-zero acceleration to MAX_SPEED
C2_Witness ==
    /\ pc = "borders"
    /\ old[cur].acceleration # Zero
    /\ Vector2Length(old[cur].velocity) <= ToFloat(1)
    /\ old[cur].velocity # Zero
    /\ Vector2Length(Me.velocity) >= MAX_SPEED - SpeedTol

\* C3: each rule's force, when the boid has a neighbour inside the rule's
\* radius, has magnitude at most MAX_FORCE.
C3_ForceClamp ==
    pc = "apply" =>
        /\ HasNeighbor(cur, SEPARATION_RADIUS) => SqLen(sep) <= MAX_FORCE * MAX_FORCE
        /\ HasNeighbor(cur, NEIGHBOR_RADIUS) =>
              /\ SqLen(ali) <= MAX_FORCE * MAX_FORCE
              /\ SqLen(coh) <= MAX_FORCE * MAX_FORCE

\* all three rules have returned a non-zero force, separate one cut to MAX_FORCE
C3_Witness ==
    /\ pc = "apply"
    /\ HasNeighbor(cur, SEPARATION_RADIUS)
    /\ Vector2Length(sep) >= MAX_FORCE - 1
    /\ sep # Zero
    /\ ali # Zero
    /\ coh # Zero

\* C4: a rule returns the zero vector when no boid lies at a distance d,
\* 0 < d < radius, of the rule; a boid at exactly the radius does not count.
C4_NoNeighborZero ==
    pc = "apply" =>
        /\ ~HasNeighbor(cur, SEPARATION_RADIUS) => sep = Zero
        /\ ~HasNeighbor(cur, NEIGHBOR_RADIUS) => (ali = Zero /\ coh = Zero)

\* a moving boid with another at exactly NEIGHBOR_RADIUS and none nearer
C4_Witness ==
    /\ pc = "apply"
    /\ HasBoidAt(cur, NEIGHBOR_RADIUS)
    /\ ~HasNeighbor(cur, NEIGHBOR_RADIUS)
    /\ Me.velocity # Zero
    /\ \E j \in 1..Len(boids) : boids[j].velocity # Zero /\ j # cur
    /\ sep = Zero /\ ali = Zero /\ coh = Zero

\* the flock without the boids standing where the boid at the loop stands
NotCoincident(b) == b.position # Me.position

\* C5: each rule returns what it returns on the flock with every boid at the
\* querying boid's position (itself included) removed.
C5_CoincidentInvisible ==
    pc = "apply" =>
        LET rest == SelectSeq(boids, NotCoincident)
        IN  /\ sep = separate(Me, rest)
            /\ ali = align(Me, rest)
            /\ coh = cohesion(Me, rest)

\* a second boid stands exactly where the querying boid stands
C5_Witness ==
    /\ pc = "apply"
    /\ \E j \in 1..Len(boids) : j # cur /\ boids[j].position = Me.position
    /\ Me.velocity # Zero

\* C6: borders maps each coordinate by itself: above the upper bound to 0,
\* below 0 to the upper bound, otherwise unchanged.
C6_ResetPerAxis ==
    pc = "next" =>
        LET o == old[cur].position
            p == Me.position
        IN  /\ p.x = (IF o.x > screenWidth THEN 0
                      ELSE IF o.x < 0 THEN screenWidth ELSE o.x)
            /\ p.y = (IF o.y > screenHeight THEN 0
                      ELSE IF o.y < 0 THEN screenHeight ELSE o.y)
            /\ Me.velocity = old[cur].velocity

\* x overshot screenWidth by more than 1 and is 0; y was inside and is kept
C6_Witness ==
    /\ pc = "next"
    /\ old[cur].position.x > screenWidth + ToFloat(1)
    /\ Me.position.x = 0
    /\ old[cur].position.y > 0
    /\ old[cur].position.y < screenHeight
    /\ Me.position.y = old[cur].position.y

\* the averaged away-vector of separate, and whether it was averaged at all
SepAverage ==
    LET scan == SeparateScan(Me, boids, Len(boids))
    IN  [count |-> scan.count,
         avg   |-> IF scan.count > 0
                   THEN Vector2ScaleInv(scan.sum, ToFloat(scan.count)) ELSE scan.sum]

\* the averaged neighbour velocity of align
AliAverage ==
    LET scan == AlignScan(Me, boids, Len(boids))
    IN  [count |-> scan.count,
         avg   |-> IF scan.count > 0
                   THEN Vector2ScaleInv(scan.sum, ToFloat(scan.count)) ELSE scan.sum]

\* the averaged neighbour position of cohesion
CohAverage ==
    LET scan == CohesionScan(Me, boids, Len(boids))
    IN  [count |-> scan.count,
         avg   |-> IF scan.count > 0
                   THEN Vector2ScaleInv(scan.sum, ToFloat(scan.count)) ELSE scan.sum]

SepCancels == SepAverage.count > 0 /\ SepAverage.avg = Zero

AliCancels == AliAverage.count > 0 /\ AliAverage.avg = Zero

CohCancels == CohAverage.count > 0 /\ CohAverage.avg = Me.position

\* C7 as stated: in each rule's zero-length case (the away-vectors cancel, the
\* neighbours' velocities average to zero, the neighbours' positions average
\* to the boid's own) the rule returns the zero vector.
C7_ZeroLengthGivesZero ==
    pc = "apply" =>
        /\ SepCancels => sep = Zero
        /\ AliCancels => ali = Zero
        /\ CohCancels => coh = Zero

\* C7 amended: in its zero-length case separate returns the zero vector;
\* align and cohesion return the boid's velocity reversed and cut to
\* MAX_FORCE, which is the zero vector only for a boid at rest.
C7_ZeroLengthBrakes ==
    pc = "apply" =>
        /\ SepCancels => sep = Zero
        /\ AliCancels =>
              /\ ali = (IF SqLen(Me.velocity) > MAX_FORCE * MAX_FORCE
                        THEN Vector2Scale(Vector2Normalize(Neg(Me.velocity)), MAX_FORCE)
                        ELSE Neg(Me.velocity))
              /\ (ali = Zero <=> Me.velocity = Zero)
        /\ CohCancels =>
              /\ coh = (IF SqLen(Me.velocity) > MAX_FORCE * MAX_FORCE
                        THEN Vector2Scale(Vector2Normalize(Neg(Me.velocity)), MAX_FORCE)
                        ELSE Neg(Me.velocity))
              /\ (coh = Zero <=> Me.velocity = Zero)

\* a moving boid midway between two boids at rest: all three cases at once
C7_Witness ==
    /\ pc = "apply"
    /\ SepCancels /\ AliCancels /\ CohCancels
    /\ Me.velocity # Zero
    /\ sep = Zero
    /\ ali # Zero
    /\ coh # Zero

\* boid i and two more boids, pairwise at a distance in (0, NEIGHBOR_RADIUS),
\* all three with one velocity
InAlignedTrio(i) ==
    \E j, k \in 1..Len(boids) :
        /\ j # i /\ k # i /\ j # k
        /\ \A a, b \in {i, j, k} :
              a # b => LET d == Vector2Distance(boids[a].position, boids[b].position)
                       IN  d > 0 /\ d < NEIGHBOR_RADIUS
        /\ boids[j].velocity = boids[i].velocity
        /\ boids[k].velocity = boids[i].velocity
        /\ \A n \in 1..Len(boids) : n \in {i, j, k} \/
              ~ (LET d == Vector2Distance(boids[i].position, boids[n].position)
                 IN  d > 0 /\ d < NEIGHBOR_RADIUS)

\* v rescaled to MAX_SPEED
AtFullSpeed(v) == Vector2Scale(Vector2Normalize(v), MAX_SPEED)

\* C8 as stated: the alignment force of a boid in a trio of neighbours with
\* one common velocity is the zero vector.
C8_AlignedTrioZero ==
    (pc = "apply" /\ InAlignedTrio(cur)) => ali = Zero

\* C8 amended: the alignment force of a boid in such a trio is the zero
\* vector exactly when the common velocity is zero or already has the
\* magnitude MAX_SPEED (rescaling it to MAX_SPEED leaves it as it is);
\* otherwise it is a non-zero force of at most MAX_FORCE.
C8_AlignedTrioSpeedGap ==
    (pc = "apply" /\ InAlignedTrio(cur)) =>
        /\ ali = Zero <=> AtFullSpeed(Me.velocity) = Me.velocity
        /\ SqLen(ali) <= MAX_FORCE * MAX_FORCE

\* a trio flying at MAX_SPEED with one velocity: no alignment force
C8_Witness ==
    /\ pc = "apply"
    /\ InAlignedTrio(cur)
    /\ Me.velocity # Zero
    /\ ali = Zero

\* C9: the forces of the boid at the loop are those the rules return on the
\* flock as it was when the frame began.
C9_ForcesFromSnapshot ==
    pc = "apply" =>
        /\ sep = separate(snapshot[cur], snapshot)
        /\ ali = align(snapshot[cur], snapshot)
        /\ coh = cohesion(snapshot[cur], snapshot)

\* C10: a step changes no boid but the one the loop is at; the queries change
\* no boid; boids not yet reached in the frame are as the frame found them;
\* the flock keeps its size.
C10_Frame ==
    /\ Len(boids) = NUM_BOIDS
    /\ Len(old) = Len(boids)
    /\ \A j \in 1..Len(boids) : j # cur => boids[j] = old[j]
    /\ pc = "apply" => boids = old
    /\ pc \in {"steer", "apply", "update", "borders", "next"} =>
          /\ \A j \in 1..Len(boids) : j > cur => boids[j] = snapshot[j]
          /\ \A j \in 1..Len(boids) : j < cur =>
                boids[j].acceleration = Zero

\* the second frame has moved a boid after the first one, and only it
C10_Witness ==
    /\ pc = "next"
    /\ tick >= 1
    /\ cur >= 2
    /\ Me.position # old[cur].position \/ Me.position # snapshot[cur].position
    /\ Me # snapshot[cur]
    /\ \A j \in 1..Len(boids) : j > cur => boids[j] = snapshot[j]

====
